---- MODULE Spec2Model ----
(***************************************************************************)
(* Model of app/server.js: the in-memory product catalog (sampleProducts)  *)
(* and the request handlers GET /api/products, POST /api/search and        *)
(* POST /api/products.  Node runs each handler to completion (none of the  *)
(* three awaits anything), so every handler is one atomic action.  The     *)
(* variables request, similarity and response are the locals of the        *)
(* request being answered; they are gone once the response is sent.        *)
(*                                                                         *)
(* A JavaScript string is a sequence of UTF-16 code units, each written    *)
(* as a one-character string or, outside ASCII, as "U+hhhh".  A value of a *)
(* JSON body that the code does not type-check (title, description,        *)
(* query) carries its type: Str(chars) or Num(n).  A request body is a     *)
(* record whose domain is the set of fields the JSON body carries: a       *)
(* missing field is a field outside DOMAIN body.  Prices are kept in       *)
(* cents.  A 512-component random vector is kept as its dimension and the  *)
(* seed of its components.                                                 *)
(***************************************************************************)
EXTENDS Integers, Sequences, FiniteSets, TLC

VARIABLES sampleProducts, request, similarity, response

vars == <<sampleProducts, request, similarity, response>>

\* Number of successful POST /api/products requests a behaviour may hold.
MaxAdds == 1

\* Components of a vector, server.js line 75.
D == 512

\* Sample seeds of createRandomVector for products added at run time.
Seeds == {7}

(***************************************************************************)
(* JavaScript values and strings                                           *)
(***************************************************************************)
Str(chars) == [type |-> "string", chars |-> chars]

Num(n) == [type |-> "number", value |-> n]

IsString(v) == v.type = "string"

\* The code units the model covers: printable ASCII, the double quote and
\* the backslash left out and the grave accent written "U+0060", and the
\* characters named below.  Upper holds those with a one-to-one lower-case form, Lower
\* that form: A-Z, U+00C0 (A grave), U+00C9 (E acute), U+00D1 (N tilde),
\* U+212A (Kelvin sign, lower-case k) and U+1E9E (capital sharp s).
Upper ==
    <<"A", "B", "C", "D", "E", "F", "G", "H", "I", "J", "K", "L", "M", "N",
      "O", "P", "Q", "R", "S", "T", "U", "V", "W", "X", "Y", "Z",
      "U+00C0", "U+00C9", "U+00D1", "U+212A", "U+1E9E">>

Lower ==
    <<"a", "b", "c", "d", "e", "f", "g", "h", "i", "j", "k", "l", "m", "n",
      "o", "p", "q", "r", "s", "t", "u", "v", "w", "x", "y", "z",
      "U+00E0", "U+00E9", "U+00F1", "k", "U+00DF">>

Digits == <<"0", "1", "2", "3", "4", "5", "6", "7", "8", "9">>

\* U+03A3 capital sigma, U+03C3 small sigma, U+03C2 small final sigma,
\* U+0130 capital I with dot above, U+0307 combining dot above.
CapitalSigma == "U+03A3"

SmallSigma == "U+03C3"

FinalSigma == "U+03C2"

CapitalIDot == "U+0130"

CombiningDot == "U+0307"

LowerOf ==
    [c \in {Upper[i] : i \in 1..Len(Upper)} |->
        Lower[CHOOSE i \in 1..Len(Upper) : Upper[i] = c]]

\* Characters with the Unicode property Cased.
Cased ==
    {Upper[i] : i \in 1..Len(Upper)} \cup {Lower[i] : i \in 1..Len(Lower)}
    \cup {CapitalSigma, SmallSigma, FinalSigma, CapitalIDot}

\* Characters with the Unicode property Case_Ignorable.
CaseIgnorable == {"'", ".", ":", "^", "U+0060", CombiningDot}

\* Characters that toLowerCase leaves as they are: the lower-case letters
\* and the characters without case.
Unchanged ==
    {Lower[i] : i \in 1..Len(Lower)} \cup {Digits[i] : i \in 1..Len(Digits)}
    \cup {SmallSigma, FinalSigma, CombiningDot}
    \cup {" ", "!", "#", "$", "%", "&", "'", "(", ")", "*", "+", ",",
          "-", ".", "/", ":", ";", "<", "=", ">", "?", "@", "[", "]",
          "^", "_", "U+0060", "{", "|", "}", "~"}

\* The Final_Sigma condition of Unicode's SpecialCasing: a cased letter
\* comes before position i and none comes after it, case-ignorable
\* characters skipped.
IsFinalSigma(s, i) ==
    /\ \E j \in 1..(i - 1) :
          /\ s[j] \in Cased
          /\ \A k \in (j + 1)..(i - 1) : s[k] \in CaseIgnorable
    /\ ~\E j \in (i + 1)..Len(s) :
          /\ s[j] \in Cased
          /\ \A k \in (i + 1)..(j - 1) : s[k] \in CaseIgnorable

\* The lower-case form of the character at position i of s.
toLowerCaseAt(s, i) ==
    CASE s[i] \in DOMAIN LowerOf -> <<LowerOf[s[i]]>>
      [] s[i] = CapitalIDot -> <<"i", CombiningDot>>
      [] s[i] = CapitalSigma ->
            IF IsFinalSigma(s, i) THEN <<FinalSigma>> ELSE <<SmallSigma>>
      [] s[i] \in Unchanged -> <<s[i]>>

RECURSIVE toLowerCaseFrom(_, _)
toLowerCaseFrom(s, i) ==
    IF i > Len(s) THEN <<>>
    ELSE toLowerCaseAt(s, i) \o toLowerCaseFrom(s, i + 1)

\* String.prototype.toLowerCase.
toLowerCase(s) == toLowerCaseFrom(s, 1)

\* String.prototype.includes: q occurs in s as a contiguous substring.
includes(s, q) ==
    \E i \in 0..(Len(s) - Len(q)) : SubSeq(s, i + 1, i + Len(q)) = q

\* Number.prototype.toString for a non-negative integer, base 10.
RECURSIVE toString(_)
toString(n) ==
    IF n < 10 THEN <<Digits[n + 1]>>
    ELSE Append(toString(n \div 10), Digits[(n % 10) + 1])

(***************************************************************************)
(* The sample catalog, server.js lines 20-69                               *)
(***************************************************************************)
\* "iPhone 15 Pro"
Title1 ==
    <<"i", "P", "h", "o", "n", "e", " ", "1", "5", " ", "P", "r", "o">>

\* "Latest Apple smartphone with titanium design and advanced camera system"
Description1 ==
    <<"L", "a", "t", "e", "s", "t", " ", "A", "p", "p", "l", "e", " ", "s",
      "m", "a", "r", "t", "p", "h", "o", "n", "e", " ", "w", "i", "t", "h",
      " ", "t", "i", "t", "a", "n", "i", "u", "m", " ", "d", "e", "s", "i",
      "g", "n", " ", "a", "n", "d", " ", "a", "d", "v", "a", "n", "c", "e",
      "d", " ", "c", "a", "m", "e", "r", "a", " ", "s", "y", "s", "t", "e",
      "m">>

\* "MacBook Air M2"
Title2 ==
    <<"M", "a", "c", "B", "o", "o", "k", " ", "A", "i", "r", " ", "M", "2">>

\* "Thin and light laptop with Apple Silicon chip for everyday computing"
Description2 ==
    <<"T", "h", "i", "n", " ", "a", "n", "d", " ", "l", "i", "g", "h", "t",
      " ", "l", "a", "p", "t", "o", "p", " ", "w", "i", "t", "h", " ", "A",
      "p", "p", "l", "e", " ", "S", "i", "l", "i", "c", "o", "n", " ", "c",
      "h", "i", "p", " ", "f", "o", "r", " ", "e", "v", "e", "r", "y", "d",
      "a", "y", " ", "c", "o", "m", "p", "u", "t", "i", "n", "g">>

\* "Nike Air Max"
Title3 ==
    <<"N", "i", "k", "e", " ", "A", "i", "r", " ", "M", "a", "x">>

\* "Comfortable running shoes with air cushioning technology"
Description3 ==
    <<"C", "o", "m", "f", "o", "r", "t", "a", "b", "l", "e", " ", "r", "u",
      "n", "n", "i", "n", "g", " ", "s", "h", "o", "e", "s", " ", "w", "i",
      "t", "h", " ", "a", "i", "r", " ", "c", "u", "s", "h", "i", "o", "n",
      "i", "n", "g", " ", "t", "e", "c", "h", "n", "o", "l", "o", "g", "y">>

\* "Samsung 4K TV"
Title4 ==
    <<"S", "a", "m", "s", "u", "n", "g", " ", "4", "K", " ", "T", "V">>

\* "High definition television with smart features and HDR support"
Description4 ==
    <<"H", "i", "g", "h", " ", "d", "e", "f", "i", "n", "i", "t", "i", "o",
      "n", " ", "t", "e", "l", "e", "v", "i", "s", "i", "o", "n", " ", "w",
      "i", "t", "h", " ", "s", "m", "a", "r", "t", " ", "f", "e", "a", "t",
      "u", "r", "e", "s", " ", "a", "n", "d", " ", "H", "D", "R", " ", "s",
      "u", "p", "p", "o", "r", "t">>

\* "Organic Coffee Beans"
Title5 ==
    <<"O", "r", "g", "a", "n", "i", "c", " ", "C", "o", "f", "f", "e", "e",
      " ", "B", "e", "a", "n", "s">>

\* "Premium Arabica coffee beans from sustainable farms"
Description5 ==
    <<"P", "r", "e", "m", "i", "u", "m", " ", "A", "r", "a", "b", "i", "c",
      "a", " ", "c", "o", "f", "f", "e", "e", " ", "b", "e", "a", "n", "s",
      " ", "f", "r", "o", "m", " ", "s", "u", "s", "t", "a", "i", "n", "a",
      "b", "l", "e", " ", "f", "a", "r", "m", "s">>

\* createRandomVector: 512 components, each Math.random() * 2 - 1.
createRandomVector(seed) == [dim |-> D, seed |-> seed]

Product(id, title, description, category, price, dseed, tseed) ==
    [id |-> id, title |-> title, description |-> description,
     category |-> category, price |-> price,
     description_vector |-> createRandomVector(dseed),
     title_vector |-> createRandomVector(tseed)]

InitialProducts ==
    << Product(<<"1">>, Str(Title1), Str(Description1), "Electronics",
               99999, 1, 2),
       Product(<<"2">>, Str(Title2), Str(Description2), "Computers",
               119999, 3, 4),
       Product(<<"3">>, Str(Title3), Str(Description3), "Sports",
               12999, 5, 6),
       Product(<<"4">>, Str(Title4), Str(Description4), "Electronics",
               59999, 7, 8),
       Product(<<"5">>, Str(Title5), Str(Description5), "Food",
               2499, 9, 10) >>

(***************************************************************************)
(* Request inputs                                                          *)
(***************************************************************************)
\* "iphone"
QueryIphone ==
    <<"i", "p", "h", "o", "n", "e">>

\* "TV"
QueryTV ==
    <<"T", "V">>

\* "shoes"
QueryShoes ==
    <<"s", "h", "o", "e", "s">>

\* "\u00e9"
QueryEAcute ==
    <<"U+00E9">>

\* "\u03c2"
QueryFinalSigma ==
    <<"U+03C2">>

\* "Tv Stand"
NewTitle ==
    <<"T", "v", " ", "S", "t", "a", "n", "d">>

\* "CAF\u00c9 shoes A.\u03a3"
NewDescription ==
    <<"C", "A", "F", "U+00C9", " ", "s", "h", "o", "e", "s", " ", "A", ".",
      "U+03A3">>

\* "xyz123"
QueryNone ==
    <<"x", "y", "z", "1", "2", "3">>

\* Bodies of POST /api/search requests.
SearchBodies ==
    << [searchType |-> "text"],
       [query |-> Str(<<>>), searchType |-> "semantic"],
       [query |-> Str(<<>>), searchType |-> "hybrid"],
       [query |-> Str(QueryIphone)],
       [query |-> Str(QueryTV), searchType |-> "text"],
       [query |-> Str(QueryShoes), searchType |-> "text"],
       [query |-> Str(QueryNone), searchType |-> "text"],
       [query |-> Str(QueryEAcute), searchType |-> "text"],
       [query |-> Str(QueryFinalSigma), searchType |-> "text"],
       [query |-> Num(123), searchType |-> "text"],
       [query |-> Str(QueryShoes), searchType |-> "semantic"],
       [query |-> Str(QueryTV), searchType |-> "hybrid"],
       [query |-> Str(QueryShoes), searchType |-> "hybrid"],
       [query |-> Str(QueryShoes), searchType |-> "fuzzy"] >>

\* Bodies of POST /api/products requests.
ProductBodies ==
    << [category |-> "Toys", price |-> 500],
       [title |-> Str(NewTitle)],
       [description |-> Str(NewDescription)],
       [title |-> Str(<<>>), description |-> Str(NewDescription)],
       [title |-> Str(NewTitle), description |-> Str(<<>>)],
       [title |-> Str(NewTitle), description |-> Str(NewDescription)],
       [title |-> Str(NewTitle), description |-> Str(NewDescription),
        category |-> "", price |-> 0],
       [title |-> Num(123), description |-> Str(NewDescription),
        category |-> "Toys", price |-> 500] >>

\* The outcomes of one Math.random() * 100 per product, for n products.  The
\* handler only compares the scores and attaches them to the results, so
\* the draws are taken up to their order: every ranking of the n products,
\* ties included, with the scores 0, 1, ... in place of the numbers drawn.
Rankings(n) ==
    {f \in [1..n -> 0..(n - 1)] :
        \A v \in 1..(n - 1) :
            (\E i \in 1..n : f[i] = v) => \E j \in 1..n : f[j] = v - 1}

RandomScores ==
    [n \in Len(InitialProducts)..(Len(InitialProducts) + MaxAdds) |->
        Rankings(n)]

(***************************************************************************)
(* JavaScript helpers                                                      *)
(***************************************************************************)
\* A check for undefined alone: "" passes as a value.
FalsyUndefinedOnly(body, f) == f \notin DOMAIN body

\* !body.f: undefined, "" and 0 are falsy.
Falsy(body, f) ==
    IF f \notin DOMAIN body THEN TRUE
    ELSE IF IsString(body[f]) THEN body[f].chars = <<>>
    ELSE body[f].value = 0

\* body.category || "General"
CategoryOrDefault(body) ==
    IF "category" \in DOMAIN body /\ body.category # ""
    THEN body.category ELSE "General"

\* body.price || 0
PriceOrDefault(body) ==
    IF "price" \in DOMAIN body /\ body.price # 0 THEN body.price ELSE 0

\* const { query, searchType = "text" } = req.body
SearchTypeOf(body) ==
    IF "searchType" \in DOMAIN body THEN body.searchType ELSE "text"

Min(a, b) == IF a < b THEN a ELSE b

\* Array.prototype.slice(0, n)
slice(s, n) == SubSeq(s, 1, Min(n, Len(s)))

\* Array.prototype.filter with the predicate given as the set of kept indexes.
RECURSIVE filterIdx(_, _, _)
filterIdx(s, keep, i) ==
    IF i > Len(s) THEN <<>>
    ELSE (IF i \in keep THEN <<s[i]>> ELSE <<>>) \o filterIdx(s, keep, i + 1)

\* { ...product, similarity: x }
WithSimilarity(p, x) ==
    [id |-> p.id, title |-> p.title, description |-> p.description,
     category |-> p.category, price |-> p.price,
     description_vector |-> p.description_vector,
     title_vector |-> p.title_vector, similarity |-> x]

\* sampleProducts.map((product) => ({ ...product, similarity: Math.random() * 100 }))
mapSimilarity(products, sim) ==
    [i \in 1..Len(products) |-> WithSimilarity(products[i], sim[i])]

\* The comparator reversed: (a, b) => a.similarity - b.similarity.
InsertAscending(sorted, x) ==
    LET k == Cardinality({i \in 1..Len(sorted) :
                             sorted[i].similarity <= x.similarity})
    IN SubSeq(sorted, 1, k) \o <<x>> \o SubSeq(sorted, k + 1, Len(sorted))

\* One step of the stable sort: x goes after every element the comparator
\* (a, b) => b.similarity - a.similarity does not order behind it.
InsertDescending(sorted, x) ==
    LET k == Cardinality({i \in 1..Len(sorted) :
                             sorted[i].similarity >= x.similarity})
    IN SubSeq(sorted, 1, k) \o <<x>> \o SubSeq(sorted, k + 1, Len(sorted))

\* Array.prototype.sort((a, b) => b.similarity - a.similarity), which is
\* stable in Node 18.
RECURSIVE sortDescending(_)
sortDescending(s) ==
    IF s = <<>> THEN <<>>
    ELSE InsertDescending(sortDescending(SubSeq(s, 1, Len(s) - 1)), s[Len(s)])

(***************************************************************************)
(* POST /api/search, server.js lines 104-164                               *)
(***************************************************************************)
\* value.toLowerCase() of a value that is no string throws a TypeError.
\* Lines 120-121 evaluate the title, then the query, and the description
\* only if the title does not contain the query.
TextMatchThrows(product, query) ==
    IF ~IsString(product.title) \/ ~IsString(query) THEN TRUE
    ELSE IF includes(toLowerCase(product.title.chars), toLowerCase(query.chars))
         THEN FALSE
    ELSE ~IsString(product.description)

\* Lines 118-122: title or description contains the query, case-folded.
TextMatch(product, query) ==
    \/ includes(toLowerCase(product.title.chars), toLowerCase(query.chars))
    \/ includes(toLowerCase(product.description.chars),
                toLowerCase(query.chars))

\* The filter callback throws on some product.
TextSearchThrows(products, query) ==
    \E i \in 1..Len(products) : TextMatchThrows(products[i], query)

TextSearch(products, query) ==
    filterIdx(products,
              {i \in 1..Len(products) : TextMatch(products[i], query)}, 1)

\* Lines 125-130 and 137-142: score every product, sort by descending score.
VectorResults(products, sim) == sortDescending(mapSimilarity(products, sim))

\* Lines 125-131.
SemanticSearch(products, sim) == slice(VectorResults(products, sim), 3)

\* Line 135 throws on a title or a query that is no string.
HybridTextMatchThrows(product, query) ==
    ~IsString(product.title) \/ ~IsString(query)

HybridSearchThrows(products, query) ==
    \E i \in 1..Len(products) : HybridTextMatchThrows(products[i], query)

\* Lines 134-136: the title alone is matched.
HybridTextMatch(product, query) ==
    includes(toLowerCase(product.title.chars), toLowerCase(query.chars))

HybridTextResults(products, query) ==
    filterIdx(products,
              {i \in 1..Len(products) : HybridTextMatch(products[i], query)}, 1)

\* The two lists concatenated without the id filter.
CombineNoDedupe(textResults, vectorResults) ==
    slice(textResults \o vectorResults, 5)

\* Lines 145-150.
Combine(textResults, vectorResults) ==
    LET textIds == {textResults[i].id : i \in 1..Len(textResults)}
        combinedResults ==
            textResults \o
            filterIdx(vectorResults,
                      {i \in 1..Len(vectorResults) :
                          vectorResults[i].id \notin textIds}, 1)
    IN slice(combinedResults, 5)

\* Lines 134-150.
HybridSearch(products, query, sim) ==
    Combine(HybridTextResults(products, query), VectorResults(products, sim))

\* Lines 153-159.
SearchResponse(body, results) ==
    [status |-> 200, query |-> body.query, searchType |-> SearchTypeOf(body),
     results |-> results, count |-> Len(results)]

\* The scores written onto the stored products instead of onto copies.
CatalogScored(products, sim) ==
    IF DOMAIN sim = {} THEN products ELSE mapSimilarity(products, sim)

\* The handler never assigns to sampleProducts: map copies each product.
CatalogAfterSearch(products, sim) == products

\* No request is being answered.
Idle == request.route = "none"

\* Lines 108-110.
SearchRejected(body) ==
    /\ Idle
    /\ Falsy(body, "query")
    /\ request' = [route |-> "search", body |-> body]
    /\ similarity' = <<>>
    /\ response' = [status |-> 400, error |-> "Query is required"]
    /\ UNCHANGED sampleProducts

\* Lines 116-122 and 153-159.
SearchText(body) ==
    /\ Idle
    /\ ~Falsy(body, "query")
    /\ SearchTypeOf(body) = "text"
    /\ ~TextSearchThrows(sampleProducts, body.query)
    /\ request' = [route |-> "search", body |-> body]
    /\ similarity' = <<>>
    /\ response' = SearchResponse(body, TextSearch(sampleProducts, body.query))
    /\ sampleProducts' = CatalogAfterSearch(sampleProducts, <<>>)

\* Lines 123-131 and 153-159.
SearchSemantic(body) ==
    /\ Idle
    /\ ~Falsy(body, "query")
    /\ SearchTypeOf(body) = "semantic"
    /\ \E sim \in RandomScores[Len(sampleProducts)] :
          /\ request' = [route |-> "search", body |-> body]
          /\ similarity' = sim
          /\ response' = SearchResponse(body, SemanticSearch(sampleProducts, sim))
          /\ sampleProducts' = CatalogAfterSearch(sampleProducts, sim)

\* Lines 132-159, the else branch: "hybrid" and every other searchType.
SearchHybrid(body) ==
    /\ Idle
    /\ ~Falsy(body, "query")
    /\ SearchTypeOf(body) \notin {"text", "semantic"}
    /\ ~HybridSearchThrows(sampleProducts, body.query)
    /\ LET textResults == HybridTextResults(sampleProducts, body.query)
       IN \E sim \in RandomScores[Len(sampleProducts)] :
             /\ request' = [route |-> "search", body |-> body]
             /\ similarity' = sim
             /\ response' =
                   SearchResponse(body,
                       Combine(textResults, VectorResults(sampleProducts, sim)))
             /\ sampleProducts' = CatalogAfterSearch(sampleProducts, sim)

\* Lines 160-163: the TypeError of a filter callback is caught, before any
\* score is drawn.
SearchFailed(body) ==
    /\ Idle
    /\ ~Falsy(body, "query")
    /\ IF SearchTypeOf(body) = "text"
       THEN TextSearchThrows(sampleProducts, body.query)
       ELSE IF SearchTypeOf(body) = "semantic" THEN FALSE
       ELSE HybridSearchThrows(sampleProducts, body.query)
    /\ request' = [route |-> "search", body |-> body]
    /\ similarity' = <<>>
    /\ response' = [status |-> 500, error |-> "Search failed"]
    /\ UNCHANGED sampleProducts

Search ==
    \E n \in 1..Len(SearchBodies) :
        \/ SearchRejected(SearchBodies[n])
        \/ SearchText(SearchBodies[n])
        \/ SearchSemantic(SearchBodies[n])
        \/ SearchHybrid(SearchBodies[n])
        \/ SearchFailed(SearchBodies[n])

(***************************************************************************)
(* POST /api/products, server.js lines 167-197                             *)
(***************************************************************************)
\* The id taken from the length before the increment.
newProductStaleId(products, body, dseed, tseed) ==
    Product(toString(Len(products)), body.title, body.description,
            CategoryOrDefault(body), PriceOrDefault(body), dseed, tseed)

\* Lines 177-185.
newProduct(products, body, dseed, tseed) ==
    Product(toString(Len(products) + 1), body.title, body.description,
            CategoryOrDefault(body), PriceOrDefault(body), dseed, tseed)

\* unshift in place of push: the product goes to the front.
unshift(products, p) == <<p>> \o products

\* Line 187: sampleProducts.push(newProduct)
push(products, p) == Append(products, p)

\* Lines 171-175.
AddProductRejected(body) ==
    /\ Idle
    /\ Falsy(body, "title") \/ Falsy(body, "description")
    /\ request' = [route |-> "addProduct", body |-> body]
    /\ similarity' = <<>>
    /\ response' = [status |-> 400, error |-> "Title and description are required"]
    /\ UNCHANGED sampleProducts

\* Lines 177-192.
AddProductAccepted(body) ==
    /\ Idle
    /\ ~(Falsy(body, "title") \/ Falsy(body, "description"))
    /\ Len(sampleProducts) < Len(InitialProducts) + MaxAdds
    /\ \E dseed \in Seeds, tseed \in Seeds :
          LET p == newProduct(sampleProducts, body, dseed, tseed)
          IN /\ sampleProducts' = push(sampleProducts, p)
             /\ request' = [route |-> "addProduct", body |-> body]
             /\ similarity' = <<>>
             /\ response' = [status |-> 201,
                             message |-> "Product added successfully",
                             product |-> p]

AddProduct ==
    \E n \in 1..Len(ProductBodies) :
        \/ AddProductRejected(ProductBodies[n])
        \/ AddProductAccepted(ProductBodies[n])

(***************************************************************************)
(* GET /api/products, server.js lines 90-101                               *)
(***************************************************************************)
ListProducts ==
    /\ Idle
    /\ request' = [route |-> "listProducts"]
    /\ similarity' = <<>>
    /\ response' = [status |-> 200, products |-> sampleProducts,
                    count |-> Len(sampleProducts)]
    /\ UNCHANGED sampleProducts

(***************************************************************************)
(* The response is sent (res.json) and the handler returns: its locals are *)
(* dropped and the server takes the next request.                          *)
(***************************************************************************)
ResponseSent ==
    /\ ~Idle
    /\ request' = [route |-> "none"]
    /\ similarity' = <<>>
    /\ response' = [status |-> 0]
    /\ UNCHANGED sampleProducts

(***************************************************************************)
(* Specification                                                           *)
(***************************************************************************)
Init ==
    /\ sampleProducts = InitialProducts
    /\ request = [route |-> "none"]
    /\ similarity = <<>>
    /\ response = [status |-> 0]

Next == Search \/ AddProduct \/ ListProducts \/ ResponseSent

Spec == Init /\ [][Next]_vars

(***************************************************************************)
(* Properties                                                              *)
(***************************************************************************)
IsSearch == request.route = "search"

IsSearchOk == IsSearch /\ response.status = 200

\* A search request whose query is a non-empty string.
HasTextQuery ==
    /\ IsSearch
    /\ "query" \in DOMAIN request.body
    /\ IsString(request.body.query)
    /\ request.body.query.chars # <<>>

\* a and b are the same character up to letter case.
SameLetter(a, b) ==
    \/ a = b
    \/ \E i, j \in 1..Len(Upper) :
          /\ a \in {Upper[i], Lower[i]}
          /\ b \in {Upper[j], Lower[j]}
          /\ Lower[i] = Lower[j]
    \/ {a, b} \subseteq {CapitalSigma, SmallSigma, FinalSigma}

\* The string q occurs in the value v, a string, as a contiguous substring,
\* letter case ignored.
ContainsIgnoringCase(v, q) ==
    /\ IsString(v)
    /\ \E i \in 0..(Len(v.chars) - Len(q.chars)) :
          \A k \in 1..Len(q.chars) : SameLetter(v.chars[i + k], q.chars[k])

\* The catalog positions whose title or description contains q.
LexicalMatches(q) ==
    {i \in 1..Len(sampleProducts) :
        \/ ContainsIgnoringCase(sampleProducts[i].title, q)
        \/ ContainsIgnoringCase(sampleProducts[i].description, q)}

\* The k-th smallest element of a set of catalog positions.
Nth(S, k) == CHOOSE i \in S : Cardinality({j \in S : j < i}) = k - 1

MissingOrEmpty(body, f) ==
    \/ f \notin DOMAIN body
    \/ IsString(body[f]) /\ body[f].chars = <<>>

\* What the search handler returns for a body it accepts when Math.random
\* draws sim.
ResultsFor(body, sim) ==
    IF SearchTypeOf(body) = "text" THEN TextSearch(sampleProducts, body.query)
    ELSE IF SearchTypeOf(body) = "semantic"
         THEN SemanticSearch(sampleProducts, sim)
    ELSE HybridSearch(sampleProducts, body.query, sim)

\* C1: on every catalog reachable by addProduct calls, a text search with a
\* non-empty query returns exactly the products whose title or description
\* contains the query case-insensitively, in catalog insertion order, and
\* the reported count is the number of results.
C1_TextSearchExact ==
    (HasTextQuery /\ SearchTypeOf(request.body) = "text") =>
        /\ response.status = 200
        /\ LET M == LexicalMatches(request.body.query)
           IN /\ Len(response.results) = Cardinality(M)
              /\ \A k \in 1..Len(response.results) :
                    response.results[k] = sampleProducts[Nth(M, k)]
              /\ response.count = Len(response.results)

\* C2: a second search with the same inputs against the unmutated catalog
\* returns the ordered result list the first one returned, in every mode,
\* whatever the second call draws.
C2_SearchDeterministic ==
    IsSearchOk =>
        \A sim \in RandomScores[Len(sampleProducts)] :
            ResultsFor(request.body, sim) = response.results

\* C3: the result list of a hybrid search holds no product id twice.
C3_HybridNoDuplicateIds ==
    (IsSearchOk /\ response.searchType = "hybrid") =>
        \A j, k \in 1..Len(response.results) :
            response.results[j].id = response.results[k].id => j = k

\* A hybrid search for "TV" over six products returned the two title matches
\* and then, scores rising with the catalog position, products 5, 3, 2.
C3_Witness ==
    /\ IsSearchOk
    /\ response.searchType = "hybrid"
    /\ Len(sampleProducts) = 6
    /\ Len(response.results) = 5
    /\ response.results[1].id = <<"4">>
    /\ response.results[2].id = <<"6">>
    /\ "similarity" \notin DOMAIN response.results[2]
    /\ similarity = <<0, 1, 2, 3, 4, 5>>
    /\ response.results[3].id = <<"5">>
    /\ response.results[5].id = <<"2">>

\* C4: no two products of the catalog have the same id.
C4_UniqueIds ==
    \A j, k \in 1..Len(sampleProducts) :
        sampleProducts[j].id = sampleProducts[k].id => j = k

\* A product was added and carries the id "6".
C4_Witness ==
    /\ request.route = "addProduct"
    /\ response.status = 201
    /\ response.product.id = <<"6">>
    /\ Len(sampleProducts) = 6

\* C5: addProduct with a missing or empty title or description answers 400
\* and leaves the catalog as it was.
C5_InvalidAddRejected ==
    [][(/\ request'.route = "addProduct"
        /\ \/ MissingOrEmpty(request'.body, "title")
           \/ MissingOrEmpty(request'.body, "description"))
       => /\ response'.status = 400
          /\ sampleProducts' = sampleProducts]_vars

\* An add with an empty title was rejected after a product had been added.
C5_Witness ==
    /\ request.route = "addProduct"
    /\ "title" \in DOMAIN request.body
    /\ request.body.title = Str(<<>>)
    /\ response.status = 400
    /\ Len(sampleProducts) = 6

IsPrefix(s, t) == Len(s) <= Len(t) /\ SubSeq(t, 1, Len(s)) = s

\* C6: addProduct with a non-empty title and description succeeds and appends
\* exactly one product, built from the request, as the last element; no step
\* removes, reorders or updates a stored product; listProducts returns the
\* whole catalog.
C6_AppendOnly ==
    [][/\ IsPrefix(sampleProducts, sampleProducts')
       /\ (/\ request'.route = "addProduct"
           /\ ~MissingOrEmpty(request'.body, "title")
           /\ ~MissingOrEmpty(request'.body, "description"))
          => /\ response'.status = 201
             /\ sampleProducts' = Append(sampleProducts, response'.product)
             /\ response'.product.title = request'.body.title
             /\ response'.product.description = request'.body.description
       /\ request'.route = "listProducts"
          => response'.products = sampleProducts']_vars

\* listProducts returned the added product as the last of six.
C6_Witness ==
    /\ request.route = "listProducts"
    /\ Len(response.products) = 6
    /\ response.products[6].title = Str(NewTitle)
    /\ response.products[1].id = <<"1">>

\* C7: search answers 400 if the query is empty or missing, and also if the
\* mode is semantic or hybrid and the request carries no query vector.
C7_SearchValidation ==
    (/\ IsSearch
     /\ \/ MissingOrEmpty(request.body, "query")
        \/ /\ SearchTypeOf(request.body) \in {"semantic", "hybrid"}
           /\ "queryVector" \notin DOMAIN request.body)
    => response.status = 400

\* C8: a hybrid result list is the lexical matches (title or description) in
\* catalog order, then the remaining products by descending score, cut to 5.
C8_HybridLexicalFirst ==
    (IsSearchOk /\ response.searchType = "hybrid") =>
        LET M == LexicalMatches(request.body.query)
            r == response.results
            m == Min(Cardinality(M), Len(r))
        IN /\ Len(r) = Min(5, Len(sampleProducts))
           /\ \A k \in 1..m : r[k].id = sampleProducts[Nth(M, k)].id
           /\ \A k \in (m + 1)..Len(r) :
                 /\ \A i \in M : r[k].id # sampleProducts[i].id
                 /\ k < Len(r) => r[k].similarity >= r[k + 1].similarity

\* C9: semantic results are ordered by descending score and are the
\* min(3, catalog size) highest-scored products of the catalog.
C9_SemanticTopK ==
    (IsSearchOk /\ response.searchType = "semantic") =>
        LET r == response.results
            n == Len(sampleProducts)
        IN /\ Len(r) = Min(3, n)
           /\ \A a, b \in 1..Len(r) :
                 a < b => r[a].similarity >= r[b].similarity
           /\ \E pos \in [1..Len(r) -> 1..n] :
                 /\ \A a, b \in 1..Len(r) : pos[a] = pos[b] => a = b
                 /\ \A a \in 1..Len(r) :
                       r[a] = WithSimilarity(sampleProducts[pos[a]],
                                             similarity[pos[a]])
                 /\ \A i \in 1..n :
                       (\A a \in 1..Len(r) : pos[a] # i)
                       => \A a \in 1..Len(r) :
                             similarity[i] <= r[a].similarity

\* A semantic search over the initial catalog whose scores rise with the
\* catalog position returned products 5, 4, 3.
C9_Witness ==
    /\ IsSearchOk
    /\ response.searchType = "semantic"
    /\ similarity = <<0, 1, 2, 3, 4>>
    /\ response.results[1].id = <<"5">>
    /\ response.results[2].id = <<"4">>
    /\ response.results[3].id = <<"3">>

\* C10: no search request, accepted or rejected, in any mode, changes the
\* catalog.
C10_SearchReadOnly ==
    [][request'.route = "search" => sampleProducts' = sampleProducts]_vars

\* A search in an unrecognised mode returned scored products while the
\* catalog, with an added product, carries no score.
C10_Witness ==
    /\ IsSearchOk
    /\ response.searchType = "fuzzy"
    /\ Len(sampleProducts) = 6
    /\ "similarity" \in DOMAIN response.results[1]
    /\ \A i \in 1..Len(sampleProducts) :
          "similarity" \notin DOMAIN sampleProducts[i]

====
